---------------------------- MODULE Spec2Model ----------------------------
(***************************************************************************)
(* Delta synchronisation of the test tree of the rust-analyzer VS Code      *)
(* extension.                                                               *)
(*                                                                          *)
(*   Sync Engine   TestDataProvider.applyUpdate     src/unnamed/part_000    *)
(*   UI Reconciler TestExplorerProvider.applyUpdate                         *)
(*                 src/editors/code/src/runnables/test_explorer.ts          *)
(*                                                                          *)
(* Objects live in a heap: a node is named by its handle (its index in the  *)
(* heap sequence), an array or a collection by the handle of its owner      *)
(* (0 for the root's).  An optional field is None when undefined and        *)
(* Some(v) otherwise.                                                       *)
(***************************************************************************)
EXTENDS Integers, Sequences, FiniteSets, TLC

VARIABLES
    m,        \* the Sync Engine: Tree Model heap, traversal position, patch lists
    x,        \* the UI Reconciler: external tree heap, traversal position, lists
    delta,    \* the DeltaUpdate of the notification being handled
    pre,      \* both sides as they were when that notification arrived
    seed,     \* the tree both sides started from
    round,    \* number of dataUpdate notifications delivered so far
    sent,     \* number of patches delivered so far, all notifications together
    rc,       \* the run controller: the test runs created, the requests sent out
    last      \* the latest event the run controller saw, what rc was before it, and
              \* the number of status updates delivered so far

vars == <<m, x, delta, pre, seed, round, sent, rc, last>>

---------------------------------------------------------------------------
(* Bounds of the model *)

MaxDel == 2        \* longest delete list
MaxUpd == 2        \* longest update list
MaxApp == 3        \* longest append list
MaxEntries == 3    \* most patches delivered, all lists and notifications together
MaxRounds == 2     \* most notifications delivered
MaxQueue == 3      \* most arrays waiting in the Sync Engine's traversal queue
MaxSteps == 12     \* most loop steps of the Sync Engine followed by MApply
MaxRuns == 1       \* run requests handled
MaxSel == 1        \* branch roots in the include, and in the exclude, of a request
MaxStatus == 2     \* status updates delivered, all runStatus notifications together
MaxManyRuns == 2   \* run requests handled in ManyRunSpec
MaxSmall == 1      \* most patches of a DeltaUpdate of SmallFairSpec
MaxSmallRounds == 1 \* most notifications delivered in SmallFairSpec

---------------------------------------------------------------------------
(* Values *)

None == <<>>
Some(v) == <<v>>
Undef == "undefined"

Range(s) == {s[i] : i \in 1..Len(s)}
Last(s) == s[Len(s)]
Front(s) == SubSeq(s, 1, Len(s) - 1)
RemoveAt(s, i) == SubSeq(s, 1, i - 1) \o SubSeq(s, i + 1, Len(s))

(* Number(id): ids are strings in the trees, targetIds are numbers.  A      *)
(* string that is not a numeral converts to NaN, which equals nothing.      *)
NaN == -1
Number(s) ==
    CASE s = "0" -> 0
      [] s = "1" -> 1
      [] s = "2" -> 2
      [] s = "3" -> 3
      [] s = "4" -> 4
      [] s = "5" -> 5
      [] s = "6" -> 6
      [] s = "7" -> 7
      [] OTHER -> NaN

NumEq(a, b) == a # NaN /\ b # NaN /\ a = b

(* pred: item.targetId == Number(node.id) *)
pred(item, t) == NumEq(item.targetId, t)

---------------------------------------------------------------------------
(* The helpers local to applyUpdate *)

(* Array.prototype.findIndex: 0-based index of the first match, -1 if none *)
findIndex(obj, t) ==
    IF \E i \in 1..Len(obj) : pred(obj[i], t)
    THEN (CHOOSE i \in 1..Len(obj) :
             pred(obj[i], t) /\ \A j \in 1..(i - 1) : ~pred(obj[j], t)) - 1
    ELSE -1

(* obj.splice(start, 1): a negative start counts from the end *)
splice(obj, start) ==
    LET s == IF start < 0
             THEN (IF Len(obj) + start < 0 THEN 0 ELSE Len(obj) + start)
             ELSE (IF start > Len(obj) THEN Len(obj) ELSE start)
    IN  IF s < Len(obj)
        THEN [list |-> RemoveAt(obj, s + 1), removed |-> Some(obj[s + 1])]
        ELSE [list |-> obj, removed |-> None]

(* findAndRemove: `if (index)` is false for index 0 and true for -1 *)
findAndRemove(obj, t) ==
    LET index == findIndex(obj, t)
    IN  IF index # 0
        THEN [list |-> splice(obj, index).list, res |-> splice(obj, index).removed]
        ELSE [list |-> obj, res |-> None]

(* a shiftIf that takes the first entry that satisfies pred, wherever it is *)
shiftIfAnywhere(obj, t) ==
    IF findIndex(obj, t) >= 0
    THEN [list |-> RemoveAt(obj, findIndex(obj, t) + 1),
          res |-> Some(obj[findIndex(obj, t) + 1])]
    ELSE [list |-> obj, res |-> None]

(* shiftIf: takes the first entry when it satisfies pred *)
shiftIf(obj, t) ==
    IF obj # <<>> /\ pred(obj[1], t)
    THEN [list |-> Tail(obj), res |-> Some(obj[1])]
    ELSE [list |-> obj, res |-> None]

(* a popIf that hands out the last entry and leaves it in the list *)
popIfKept(obj, t) ==
    IF obj # <<>> /\ pred(Last(obj), t)
    THEN [list |-> obj, res |-> Some(Last(obj))]
    ELSE [list |-> obj, res |-> None]

(* popIf: takes the last entry when it satisfies pred *)
popIf(obj, t) ==
    IF obj # <<>> /\ pred(Last(obj), t)
    THEN [list |-> Front(obj), res |-> Some(Last(obj))]
    ELSE [list |-> obj, res |-> None]

---------------------------------------------------------------------------
(* Tree Model: nodes, and the Sync Engine's state                           *)
(*   node:  [kind, id, name, location, testKind, modules, targets]          *)
(*          modules, targets: None, or Some(sequence of handles)            *)
(*   m:     [crates, nodes, queue, cur, idx, pc, upd, del, app, events, err]*)

RootCrates == 0    \* names the array held by Session.crates

Crate(id, name, location, modules) ==
    [kind |-> "Crate", id |-> id, name |-> name, location |-> location,
     testKind |-> Undef, modules |-> Some(modules), targets |-> None]

Module(id, name, location, modules, targets) ==
    [kind |-> "Module", id |-> id, name |-> name, location |-> location,
     testKind |-> Undef, modules |-> modules, targets |-> targets]

Function(id, name, location, testKind) ==
    [kind |-> "Function", id |-> id, name |-> name, location |-> location,
     testKind |-> testKind, modules |-> None, targets |-> None]

(* Session.getChildren: this.crates, the array itself (undefined, hence     *)
(* None, on a Session that was only constructed)                            *)
SessionGetChildren(s) == s.crates

(* Crate.getChildren *)
CrateGetChildren(node) == node.modules[1]

(* Module.getChildren: the targets, then the modules, in a new array *)
ModuleGetChildren(node) ==
    (IF node.targets # None THEN node.targets[1] ELSE <<>>)
        \o (IF node.modules # None THEN node.modules[1] ELSE <<>>)

(* the children of a node of any kind *)
NodeChildren(node) ==
    CASE node.kind = "Crate" -> CrateGetChildren(node)
      [] node.kind = "Module" -> ModuleGetChildren(node)
      [] OTHER -> <<>>

(* the array a queue entry names *)
Arr(s, ref) == IF ref = RootCrates THEN s.crates[1] ELSE <<>>

SetArr(s, ref, arr) ==
    IF ref = RootCrates THEN [s EXCEPT !.crates = Some(arr)] ELSE s

(* an emitter that drops the event *)
fireDropped(s, h) == s

(* treeChangeEmitter.fire(node) *)
fire(s, h) == [s EXCEPT !.events = Append(@, s.nodes[h].id)]

(* Array.prototype.indexOf, 0-based, -1 when absent *)
indexOf(arr, h) ==
    IF \E i \in 1..Len(arr) : arr[i] = h
    THEN (CHOOSE i \in 1..Len(arr) :
             arr[i] = h /\ \A j \in 1..(i - 1) : arr[j] # h) - 1
    ELSE -1

(* handleCreate without its kind checks: whatever the item is, it is pushed  *)
(* on the target's modules                                                  *)
handleCreateUnchecked(s, h, patch) ==
    [s EXCEPT !.nodes =
        [Append(s.nodes, patch.item) EXCEPT ![h].modules =
            Some(Append(IF @ = None THEN <<>> ELSE @[1], Len(s.nodes) + 1))]]

(* handleCreate: the item becomes a new object of the heap; a kind that is  *)
(* illegal under the target throws Error, a push on an undefined array      *)
(* throws TypeError                                                         *)
handleCreate(s, h, patch) ==
    LET target == s.nodes[h]
        item == patch.item
        new == Len(s.nodes) + 1
        heap == Append(s.nodes, item)
    IN  CASE target.kind = "Crate" ->
               IF item.kind # "Module"
               THEN [s EXCEPT !.err = "Error"]
               ELSE [s EXCEPT !.nodes =
                        [heap EXCEPT ![h].modules = Some(Append(@[1], new))]]
          [] target.kind = "Module" ->
               IF item.kind = "Module"
               THEN [s EXCEPT !.nodes =
                        [heap EXCEPT ![h].modules =
                            Some(Append(IF @ = None THEN <<>> ELSE @[1], new))]]
               ELSE IF item.kind = "Function"
               THEN LET made == [s.nodes EXCEPT ![h].modules =
                                    IF @ = None THEN Some(<<>>) ELSE @]
                    IN  IF target.targets = None
                        THEN [s EXCEPT !.nodes = made, !.err = "TypeError"]
                        ELSE [s EXCEPT !.nodes =
                                 [Append(made, item) EXCEPT ![h].targets =
                                     Some(Append(@[1], new))]]
               ELSE [s EXCEPT !.err = "Error"]
          [] OTHER -> s

(* handleCreate on the Session itself *)
handleCreateSession(s, patch) ==
    IF patch.item.kind # "Crate"
    THEN [s EXCEPT !.err = "Error"]
    ELSE IF s.crates = None
    THEN [s EXCEPT !.err = "TypeError"]
    ELSE [s EXCEPT !.nodes = Append(@, patch.item),
                   !.crates = Some(Append(@[1], Len(s.nodes) + 1))]

(* handleDelete: parentField.splice(parentField.indexOf(node), 1) *)
handleDelete(s, h, parentField) ==
    SetArr(s, parentField, splice(Arr(s, parentField), indexOf(Arr(s, parentField), h)).list)

(* handleUpdate: every field of the node's kind is assigned from the        *)
(* payload, a field the payload lacks being read as undefined               *)
handleUpdate(s, h, patch) ==
    LET node == s.nodes[h]
        p == patch.payload
    IN  CASE node.kind \in {"Crate", "Module"} ->
               [s EXCEPT !.nodes[h].name = p.name, !.nodes[h].location = p.location]
          [] node.kind = "Function" ->
               [s EXCEPT !.nodes[h].name = p.name, !.nodes[h].location = p.location,
                         !.nodes[h].testKind = p.testKind]
          [] OTHER -> s

(* the callback applyUpdate hands to bfs, run on one node *)
process(s, parentField, h) ==
    LET node == s.nodes[h]
        t == Number(node.id)
        r1 == findAndRemove(s.upd, t)
        s1 == IF node.kind = "Session" THEN s
              ELSE IF r1.res # None
              THEN fire(handleUpdate([s EXCEPT !.upd = r1.list], h, r1.res[1]), h)
              ELSE [s EXCEPT !.upd = r1.list]
        r2 == findAndRemove(s1.del, t)
        s2 == IF r2.res # None
              THEN fire(handleDelete([s1 EXCEPT !.del = r2.list], h, parentField), h)
              ELSE [s1 EXCEPT !.del = r2.list]
        r3 == shiftIf(s2.app, t)
        c3 == handleCreate([s2 EXCEPT !.app = r3.list], h, r3.res[1])
        s3 == IF r3.res # None
              THEN (IF c3.err # "none" THEN c3 ELSE fire(c3, h))
              ELSE s2
    IN  IF node.kind = "Function" THEN s1 ELSE s3

(* applyUpdate up to the while loop of bfs: the root's children are queued  *)
(* when they are not null                                                   *)
MStart(s, d) ==
    [s EXCEPT !.upd = d.update, !.del = d.delete, !.app = d.append,
              !.events = <<>>, !.err = "none", !.cur = RootCrates, !.idx = 0,
              !.queue = IF SessionGetChildren(s) # None THEN <<RootCrates>> ELSE <<>>,
              !.pc = "while"]

(* the head of `while (queue.length != 0)`: queue.pop() *)
MPop(s) ==
    IF s.queue = <<>>
    THEN [s EXCEPT !.pc = "done"]
    ELSE [s EXCEPT !.cur = Last(s.queue), !.queue = Front(s.queue),
                   !.idx = 0, !.pc = "for"]

(* one turn of `for (let item of current)`: the array iterator reads the    *)
(* array as it is now; after process the ROOT's children are queued again   *)
MItem(s) ==
    IF s.idx >= Len(Arr(s, s.cur))
    THEN [s EXCEPT !.pc = "while"]
    ELSE LET p == process(s, s.cur, Arr(s, s.cur)[s.idx + 1])
         IN  IF p.err # "none"
             THEN [p EXCEPT !.pc = "threw"]
             ELSE [p EXCEPT !.idx = s.idx + 1,
                            !.queue = IF SessionGetChildren(p) # None
                                      THEN Append(p.queue, RootCrates)
                                      ELSE p.queue]

---------------------------------------------------------------------------
(* External tree: vscode TestItems, and the UI Reconciler's state           *)
(*   item:  [id, label, children]   children: handles in the Map's order    *)
(*   x:     [items, nodes, queue, cur, idx, pc, upd, del, app]              *)
(* A TestItemCollection is a Map keyed by id: forEach walks it in insertion *)
(* order and sees what is added or deleted during the walk; x.idx counts    *)
(* the entries of x.cur the walk has passed.                                *)

RootItems == 0     \* names controller.items

TestItem(id, label, children) == [id |-> id, label |-> label, children |-> children]

XColl(s, ref) == IF ref = RootItems THEN s.items ELSE s.nodes[ref].children

XSetColl(s, ref, coll) ==
    IF ref = RootItems THEN [s EXCEPT !.items = coll]
    ELSE [s EXCEPT !.nodes[ref].children = coll]

(* position of the entry keyed id in a collection, 0 when there is none *)
XKeyPos(s, coll, id) ==
    IF \E i \in 1..Len(coll) : s.nodes[coll[i]].id = id
    THEN CHOOSE i \in 1..Len(coll) : s.nodes[coll[i]].id = id
    ELSE 0

(* TestItemCollection.delete(id); a walk of the collection that has passed  *)
(* the entry has one entry less behind it                                   *)
XCollDelete(s, ref, id) ==
    LET coll == XColl(s, ref)
        p == XKeyPos(s, coll, id)
    IN  IF p = 0 THEN s
        ELSE [XSetColl(s, ref, RemoveAt(coll, p)) EXCEPT
                 !.idx = IF ref = s.cur /\ p <= s.idx THEN s.idx - 1 ELSE s.idx]

(* TestItemCollection.add(item): an item with the same id is replaced where *)
(* it stands, any other is added at the end                                 *)
XCollAdd(s, ref, h) ==
    LET coll == XColl(s, ref)
        p == XKeyPos(s, coll, s.nodes[h].id)
    IN  IF p = 0 THEN XSetColl(s, ref, Append(coll, h))
        ELSE XSetColl(s, ref, [coll EXCEPT ![p] = h])

(* controller.createTestItem(id, name) *)
createTestItem(s, id, name) == [s EXCEPT !.nodes = Append(@, TestItem(id, name, <<>>))]

(* the callback applyUpdate hands to bfs; h = 0 stands for node undefined,  *)
(* the visit of the root                                                    *)
XProcess(s, parentField, h) ==
    LET targetId == IF h = 0 THEN "0" ELSE s.nodes[h].id
        t == Number(targetId)
        r1 == findAndRemove(s.upd, t)
        s1 == [s EXCEPT !.upd = r1.list]
        r2 == findAndRemove(s1.del, t)
        s2 == IF r2.res # None
              THEN XCollDelete([s1 EXCEPT !.del = r2.list], parentField, targetId)
              ELSE [s1 EXCEPT !.del = r2.list]
        r3 == popIf(s2.app, t)
        c3 == createTestItem([s2 EXCEPT !.app = r3.list], r3.res[1].item.id, r3.res[1].item.name)
    IN  IF r3.res # None
        THEN XCollAdd(c3, parentField, Len(c3.nodes))
        ELSE s2

(* applyUpdate up to the while loop of bfs: the visit of the root, then the *)
(* root collection is queued unless it is empty                             *)
XStart(s, d) ==
    LET s0 == [s EXCEPT !.upd = d.update, !.del = d.delete, !.app = d.append,
                        !.cur = RootItems, !.idx = 0, !.queue = <<>>]
        s1 == XProcess(s0, RootItems, 0)
    IN  IF Len(s1.items) = 0
        THEN [s1 EXCEPT !.pc = "done"]
        ELSE [s1 EXCEPT !.queue = <<RootItems>>, !.pc = "while"]

(* the head of `while (queue.length != 0)`: queue.pop() *)
XPop(s) ==
    IF s.queue = <<>>
    THEN [s EXCEPT !.pc = "done"]
    ELSE [s EXCEPT !.cur = Last(s.queue), !.queue = Front(s.queue),
                   !.idx = 0, !.pc = "each"]

(* one callback of current.forEach: process, then the item's children are   *)
(* queued when it has some                                                  *)
XItem(s) ==
    IF s.idx >= Len(XColl(s, s.cur))
    THEN [s EXCEPT !.pc = "while"]
    ELSE LET h == XColl(s, s.cur)[s.idx + 1]
             p == XProcess([s EXCEPT !.idx = s.idx + 1], s.cur, h)
         IN  IF Len(p.nodes[h].children) > 0
             THEN [p EXCEPT !.queue = Append(@, h)]
             ELSE p

(* findItem: looks for id among the children of the items it walks, which   *)
(* starts from the top-level items; None stands for null                    *)
RECURSIVE findItemWalk(_, _, _)
findItemWalk(s, buff, id) ==
    IF buff = <<>> THEN None
    ELSE LET current == Last(buff)
             kids == s.nodes[current].children
             hit == {i \in 1..Len(kids) : s.nodes[kids[i]].id = id}
         IN  IF hit # {}
             THEN Some(<<kids[CHOOSE i \in hit : \A j \in hit : j <= i], current>>)
             ELSE findItemWalk(s, Front(buff) \o kids, id)

findItem(s, id) == findItemWalk(s, s.items, id)

(* TestExplorerProvider.applyUpdate from call to return *)
RECURSIVE XRun(_)
XRun(s) ==
    IF s.pc = "done" THEN s
    ELSE XRun(IF s.pc = "while" THEN XPop(s) ELSE XItem(s))

XApply(s, d) == XRun(XStart(s, d))

(* TestDataProvider.applyUpdate, followed for at most n steps of its loops *)
RECURSIVE MRun(_, _)
MRun(s, n) ==
    IF s.pc \in {"done", "threw"} \/ n = 0 THEN s
    ELSE MRun(IF s.pc = "while" THEN MPop(s) ELSE MItem(s), n - 1)

MApply(s, d, n) == MRun(MStart(s, d), n)

---------------------------------------------------------------------------
(* Observations of the two trees *)

RECURSIVE MPairs(_, _, _)
MPairs(s, hs, parentId) ==
    UNION {{<<s.nodes[h].id, parentId>>}
              \cup MPairs(s, NodeChildren(s.nodes[h]), s.nodes[h].id) : h \in Range(hs)}

(* the (id, parentId) pairs of the Tree Model, the root being "0" *)
MShape(s) == IF s.crates = None THEN {} ELSE MPairs(s, s.crates[1], "0")

RECURSIVE XPairs(_, _, _)
XPairs(s, hs, parentId) ==
    UNION {{<<s.nodes[h].id, parentId>>}
              \cup XPairs(s, s.nodes[h].children, s.nodes[h].id) : h \in Range(hs)}

(* the (id, parentId) pairs of the external tree *)
XShape(s) == XPairs(s, s.items, "0")

RECURSIVE MLive(_, _)
MLive(s, hs) == UNION {{h} \cup MLive(s, NodeChildren(s.nodes[h])) : h \in Range(hs)}

(* the handles of the nodes reachable from the Session *)
MLiveNodes(s) == IF s.crates = None THEN {} ELSE MLive(s, s.crates[1])

RECURSIVE XLive(_, _)
XLive(s, hs) == UNION {{h} \cup XLive(s, s.nodes[h].children) : h \in Range(hs)}

(* the handles of the items reachable from controller.items *)
XLiveNodes(s) == XLive(s, s.items)

RECURSIVE MViewOf(_, _, _)
MViewOf(s, hs, parentId) ==
    UNION {{<<s.nodes[hs[i]].id, parentId, i, s.nodes[hs[i]].name,
              s.nodes[hs[i]].location, s.nodes[hs[i]].testKind>>}
              \cup MViewOf(s, NodeChildren(s.nodes[hs[i]]), s.nodes[hs[i]].id)
           : i \in 1..Len(hs)}

(* the Tree Model as seen from the Session: each live node's id, parent,    *)
(* position among its siblings, and fields                                  *)
MView(s) == IF s.crates = None THEN {} ELSE MViewOf(s, s.crates[1], "0")

RECURSIVE XViewOf(_, _, _)
XViewOf(s, hs, parentId) ==
    UNION {{<<s.nodes[hs[i]].id, parentId, i, s.nodes[hs[i]].label>>}
              \cup XViewOf(s, s.nodes[hs[i]].children, s.nodes[hs[i]].id)
           : i \in 1..Len(hs)}

(* the external tree as seen from controller.items *)
XView(s) == XViewOf(s, s.items, "0")

(* the ids of a shape, and the pairs of the subtree of id in a shape *)
ShapeIds(shape) == {pr[1] : pr \in shape}

RECURSIVE Under(_, _)
Under(shape, ids) ==
    LET more == ids \cup {pr[1] : pr \in {q \in shape : q[2] \in ids}}
    IN  IF more = ids THEN ids ELSE Under(shape, more)

Subtree(shape, id) == {pr \in shape : pr[1] \in Under(shape, {id})}

(* the ids of the children of the live node id, in order ("0": the root) *)
IdsOf(nodes, hs) == [i \in 1..Len(hs) |-> nodes[hs[i]].id]

XChildIds(s, id) ==
    IF id = "0" THEN IdsOf(s.nodes, s.items)
    ELSE LET hs == {h \in XLiveNodes(s) : s.nodes[h].id = id}
         IN  IF hs = {} THEN <<>>
             ELSE IdsOf(s.nodes, s.nodes[CHOOSE h \in hs : TRUE].children)

MChildIds(s, id) ==
    IF id = "0" THEN (IF s.crates = None THEN <<>> ELSE IdsOf(s.nodes, s.crates[1]))
    ELSE LET hs == {h \in MLiveNodes(s) : s.nodes[h].id = id}
         IN  IF hs = {} THEN <<>>
             ELSE IdsOf(s.nodes, NodeChildren(s.nodes[CHOOSE h \in hs : TRUE]))

---------------------------------------------------------------------------
(* The trees a run starts from, and the DeltaUpdates delivered              *)

SeedNames == {"empty", "blank", "scenario", "populated", "two"}

(* empty:     new Session, crates undefined                                  *)
(* blank:     Session with crates = []                                       *)
(* scenario:  Session -> Crate 1 -> Module 2 (no modules, no targets yet)    *)
(* populated: Session -> Crate 1 -> Module 2 -> {Function 3, Module 5}       *)
(* two:       Session -> Crate 1 -> Module 2,  Crate 4 -> Module 5           *)
SeedNodes(n) ==
    CASE n = "scenario" ->
           <<Crate("1", "c1", "lc1", <<2>>), Module("2", "m1", "lm1", None, None)>>
      [] n = "populated" ->
           <<Crate("1", "c1", "lc1", <<2>>),
             Module("2", "m1", "lm1", Some(<<4>>), Some(<<3>>)),
             Function("3", "f1", "lf1", "Test"),
             Module("5", "m2", "lm2", None, None)>>
      [] n = "two" ->
           <<Crate("1", "c1", "lc1", <<2>>), Module("2", "m1", "lm1", None, None),
             Crate("4", "c2", "lc2", <<4>>), Module("5", "m2", "lm2", None, None)>>
      [] OTHER -> <<>>

SeedCrates(n) ==
    CASE n = "scenario" -> Some(<<1>>)
      [] n = "populated" -> Some(<<1>>)
      [] n = "two" -> Some(<<1, 3>>)
      [] n = "blank" -> Some(<<>>)
      [] OTHER -> None

MInit(n) ==
    [crates |-> SeedCrates(n), nodes |-> SeedNodes(n), queue |-> <<>>,
     cur |-> RootCrates, idx |-> 0, pc |-> "idle",
     upd |-> <<>>, del |-> <<>>, app |-> <<>>, events |-> <<>>, err |-> "none"]

(* the external tree that mirrors the seed: one item per node, same handles *)
XInit(n) ==
    [items |-> IF SeedCrates(n) = None THEN <<>> ELSE SeedCrates(n)[1],
     nodes |-> [i \in 1..Len(SeedNodes(n)) |->
                   TestItem(SeedNodes(n)[i].id, SeedNodes(n)[i].name,
                            NodeChildren(SeedNodes(n)[i]))],
     queue |-> <<>>, cur |-> RootItems, idx |-> 0, pc |-> "idle",
     upd |-> <<>>, del |-> <<>>, app |-> <<>>]

Payload(name, location, testKind) ==
    [name |-> name, location |-> location, testKind |-> testKind]

PayName == Payload("renamed", Undef, Undef)
PayFull == Payload("n2", "l2", "Bench")

DelPool == {[targetId |-> t] : t \in {0, 1, 2, 4}}

UpdPool == {[targetId |-> t, payload |-> p] : t \in {1, 3}, p \in {PayName, PayFull}}

AppA == [targetId |-> 0, item |-> Crate("1", "A", "la", <<>>)]
AppB == [targetId |-> 1, item |-> Module("2", "B", "lb", None, None)]
AppC == [targetId |-> 0, item |-> Crate("4", "C", "lc", <<>>)]
AppF == [targetId |-> 2, item |-> Function("3", "f1", "lf1", "Test")]
AppG == [targetId |-> 1, item |-> Module("6", "G", "lg", None, None)]
AppH == [targetId |-> 4, item |-> Module("7", "H", "lh", None, None)]
(* a Function directly under Crate 1: a kind handleCreate refuses there *)
AppX == [targetId |-> 1, item |-> Function("3", "f1", "lf1", "Test")]

AppPool == {AppA, AppB, AppC, AppF, AppG, AppH, AppX}

DeltaUpdate(del, upd, app) == [delete |-> del, update |-> upd, append |-> app]

(* every DeltaUpdate over the pools within the bounds *)
Size(d) == Len(d.delete) + Len(d.update) + Len(d.append)

DeltasOfSize(nd, nu, na) ==
    {DeltaUpdate(d, u, a) :
        d \in [1..nd -> DelPool], u \in [1..nu -> UpdPool], a \in [1..na -> AppPool]}

BoundedDeltas ==
    UNION {DeltasOfSize(n[1], n[2], n[3]) :
           n \in {k \in (0..MaxDel) \X (0..MaxUpd) \X (0..MaxApp) :
                      k[1] + k[2] + k[3] <= MaxEntries}}

---------------------------------------------------------------------------
(* Run controller: handleRunRequest, the status handler it subscribes, and  *)
(* TestRunControler.  A vscode.TestRun is recorded by the calls made on it: *)
(*   run: [enq, calls, ended, err]   enq: the items handed to run.enqueued  *)
(*   calls: [op, item] of every other call, item 0 when the call has none   *)
(*   err: how the latest call of the run's status handler ended             *)
(*   rc:  [runs, out]                out: the runTests requests sent        *)

createTestRun == [enq |-> <<>>, calls |-> <<>>, ended |-> FALSE, err |-> "none"]

TestRunRequest(include, exclude, profile) ==
    [include |-> include, exclude |-> exclude, profile |-> profile]

(* a bfsTestItems whose loop does not look at isTerminate *)
RECURSIVE bfsTestItemsUnstopped(_, _, _, _, _)
bfsTestItemsUnstopped(s, queue, request, isCancellationRequested, run) ==
    IF queue = <<>> THEN run
    ELSE IF request.exclude # None /\ Last(queue) \in Range(request.exclude[1])
    THEN bfsTestItemsUnstopped(s, Front(queue), request, isCancellationRequested, run)
    ELSE bfsTestItemsUnstopped(s, Front(queue) \o s.nodes[Last(queue)].children, request,
                               isCancellationRequested,
                               [run EXCEPT !.enq = Append(@, Last(queue))])

(* bfsTestItems with the callback of handleRunRequest: queue.pop(), the     *)
(* callback sets isTerminate from the token and either skips an excluded    *)
(* item or enqueues the item; the children of an item not skipped are       *)
(* pushed, and the loop goes on while isTerminate is false                  *)
RECURSIVE bfsTestItems(_, _, _, _, _)
bfsTestItems(s, queue, request, isCancellationRequested, run) ==
    IF queue = <<>> THEN run
    ELSE LET current == Last(queue)
             isSkipping == request.exclude # None /\ current \in Range(request.exclude[1])
             run1 == IF isSkipping THEN run ELSE [run EXCEPT !.enq = Append(@, current)]
             queue1 == IF isSkipping THEN Front(queue)
                       ELSE Front(queue) \o s.nodes[current].children
         IN  IF isCancellationRequested THEN run1
             ELSE bfsTestItems(s, queue1, request, isCancellationRequested, run1)

(* the switch on request.profile, were it to answer Run for every profile *)
runKindRunOnly(profile) == "Run"

(* the switch on request.profile *)
runKind(profile) ==
    CASE profile = "runProfile" -> "Run"
      [] profile = "debugProfile" -> "Debug"
      [] OTHER -> Undef

(* request.include?.map(i => i.id) *)
mapIds(s, sel) ==
    IF sel = None THEN None ELSE Some([i \in 1..Len(sel[1]) |-> s.nodes[sel[1][i]].id])

(* TestRunControler.execute: one runTests request is sent *)
execute(c, include, exclude, kind) ==
    [c EXCEPT !.out = Append(@, [include |-> include, exclude |-> exclude, runKind |-> kind])]

(* handleRunRequest: the run is created, the selection is enqueued, the     *)
(* status handler is subscribed (the run joins rc.runs, and no subscription *)
(* is ever disposed of), and execute is called                              *)
handleRunRequest(s, c, request, isCancellationRequested) ==
    LET queue == IF request.include # None THEN request.include[1] ELSE s.items
        run == bfsTestItems(s, queue, request, isCancellationRequested, createTestRun)
    IN  execute([c EXCEPT !.runs = Append(@, run)],
                mapIds(s, request.include), mapIds(s, request.exclude),
                runKind(request.profile))

call(run, op, item) == [run EXCEPT !.calls = Append(@, [op |-> op, item |-> item])]

(* the call on the run that a status update kind stands for *)
Transition(kind) ==
    CASE kind = "Skiped" -> "skipped"
      [] kind = "Errored" -> "errored"
      [] kind = "Failed" -> "failed"
      [] kind = "Passed" -> "passed"
      [] kind = "Started" -> "started"
      [] kind = "RawOutput" -> "appendOutput"
      [] OTHER -> "end"

(* the status handler of one run: `for (const update of updates)` with its  *)
(* switch; `const [item, _] = this.findItem(update.id)!` throws TypeError   *)
(* when findItem returns null, which ends the loop                          *)
RECURSIVE statusHandler(_, _, _)
statusHandler(s, run, updates) ==
    IF updates = <<>> THEN run
    ELSE LET update == Head(updates)
         IN  CASE update.kind = "RawOutput" ->
                    statusHandler(s, call(run, "appendOutput", 0), Tail(updates))
               [] update.kind = "Finish" ->
                    statusHandler(s, [call(run, "end", 0) EXCEPT !.ended = TRUE],
                                  Tail(updates))
               [] OTHER ->
                    IF findItem(s, update.id) = None
                    THEN [run EXCEPT !.err = "TypeError"]
                    ELSE statusHandler(s, call(run, Transition(update.kind),
                                               findItem(s, update.id)[1][1]),
                                       Tail(updates))

(* an emitter that calls the handler subscribed last and no other *)
emitterFireLatest(s, c, updates) ==
    [c EXCEPT !.runs =
        [i \in 1..Len(c.runs) |->
            IF i = Len(c.runs)
            THEN statusHandler(s, [c.runs[i] EXCEPT !.err = "none"], updates)
            ELSE c.runs[i]]]

(* emitter.fire(updates): every subscribed handler is called *)
emitterFire(s, c, updates) ==
    [c EXCEPT !.runs =
        [i \in 1..Len(c.runs) |-> statusHandler(s, [c.runs[i] EXCEPT !.err = "none"], updates)]]

RcInit == [runs |-> <<>>, out |-> <<>>]

(* the inputs of the run controller *)
(* the sequences of one to n elements of S, no element twice *)
DistinctSeqs(S, n) ==
    {q \in UNION {[1..k -> S] : k \in 1..n} :
        \A i, j \in 1..Len(q) : q[i] = q[j] => i = j}

(* undefined, or up to MaxSel live items *)
Selections(s) == {None} \cup {Some(q) : q \in DistinctSeqs(XLiveNodes(s), MaxSel)}

RunRequests(s) ==
    {TestRunRequest(i, e, p) :
        i \in Selections(s), e \in Selections(s), p \in {"runProfile", "debugProfile"}}

StatusKinds == {"RawOutput", "Started", "Passed", "Failed", "Errored", "Skiped", "Finish"}
StatusIds == {"1", "2"}

RunStatusUpdate(kind, id) == [kind |-> kind, id |-> id]

StatusPool ==
    {RunStatusUpdate(k, Undef) : k \in {"RawOutput", "Finish"}}
    \cup {RunStatusUpdate(k, id) : k \in StatusKinds \ {"RawOutput", "Finish"}, id \in StatusIds}

Notifications == UNION {[1..k -> StatusPool] : k \in 1..MaxStatus}

(* the DeltaUpdates delivered while a run is under way: deletes only *)
RunDeltas ==
    {DeltaUpdate(d, <<>>, <<>>) : d \in UNION {[1..k -> DelPool] : k \in 1..MaxDel}}

LastInit ==
    [kind |-> "none", request |-> TestRunRequest(None, None, "runProfile"),
     cancelled |-> FALSE, updates |-> <<>>, rc |-> RcInit, count |-> 0]

---------------------------------------------------------------------------
(* The state machine *)

Init ==
    /\ seed \in SeedNames
    /\ m = MInit(seed)
    /\ x = XInit(seed)
    /\ delta = DeltaUpdate(<<>>, <<>>, <<>>)
    /\ pre = [m |-> MInit(seed), x |-> XInit(seed)]
    /\ round = 0
    /\ sent = 0
    /\ rc = RcInit
    /\ last = LastInit

XIdle == x.pc \in {"idle", "done"}
MIdle == m.pc \in {"idle", "done", "threw"}

(* client.onNotification(ra.dataUpdate, ...): the host delivers the next    *)
(* notification once the handlers of the previous one have returned; each   *)
(* side receives its own copy of the DeltaUpdate, and what is left of the   *)
(* previous one is dropped                                                  *)
Deliver(deltas, rounds) ==
    /\ XIdle /\ MIdle
    /\ round < rounds
    /\ \E d \in deltas :
          /\ sent + Size(d) <= MaxEntries
          /\ delta' = d
          /\ sent' = sent + Size(d)
    /\ x' = [x EXCEPT !.pc = "start", !.upd = <<>>, !.del = <<>>, !.app = <<>>]
    /\ m' = [m EXCEPT !.pc = "start", !.upd = <<>>, !.del = <<>>, !.app = <<>>,
                      !.events = <<>>, !.err = "none"]
    /\ pre' = [m |-> m', x |-> x']
    /\ round' = round + 1
    /\ UNCHANGED <<seed, rc, last>>

DataUpdate == Deliver(BoundedDeltas, MaxRounds)

(* the same, with a DeltaUpdate of at most MaxSmall patches, MaxSmallRounds *)
(* times                                                                    *)
SmallDeltas ==
    UNION {DeltasOfSize(n[1], n[2], n[3]) :
           n \in {k \in (0..MaxDel) \X (0..MaxUpd) \X (0..MaxApp) :
                      k[1] + k[2] + k[3] <= MaxSmall}}

SmallDataUpdate == Deliver(SmallDeltas, MaxSmallRounds)

(* TestExplorerProvider.applyUpdate *)
XBegin ==
    /\ x.pc = "start"
    /\ x' = XStart(x, delta)
    /\ UNCHANGED <<m, delta, pre, seed, round, sent, rc, last>>

XWhile ==
    /\ x.pc = "while"
    /\ x' = XPop(x)
    /\ UNCHANGED <<m, delta, pre, seed, round, sent, rc, last>>

XEach ==
    /\ x.pc = "each"
    /\ x' = XItem(x)
    /\ UNCHANGED <<m, delta, pre, seed, round, sent, rc, last>>

(* TestDataProvider.applyUpdate, run once the reconciler has returned *)
MBegin ==
    /\ x.pc = "done"
    /\ m.pc = "start"
    /\ m' = MStart(m, delta)
    /\ UNCHANGED <<x, delta, pre, seed, round, sent, rc, last>>

MWhile ==
    /\ m.pc = "while"
    /\ m' = MPop(m)
    /\ UNCHANGED <<x, delta, pre, seed, round, sent, rc, last>>

MFor ==
    /\ m.pc = "for"
    /\ Len(m.queue) < MaxQueue
    /\ m' = MItem(m)
    /\ UNCHANGED <<x, delta, pre, seed, round, sent, rc, last>>

(* a run or debug request of the user, handled by handleRunRequest *)
Request(runs) ==
    /\ XIdle
    /\ Len(rc.runs) < runs
    /\ \E request \in RunRequests(x), isCancellationRequested \in BOOLEAN :
          /\ rc' = handleRunRequest(x, rc, request, isCancellationRequested)
          /\ last' = [LastInit EXCEPT !.kind = "request", !.request = request,
                                      !.cancelled = isCancellationRequested, !.rc = rc,
                                      !.count = last.count]
    /\ UNCHANGED <<m, x, delta, pre, seed, round, sent>>

RunRequest == Request(MaxRuns)

(* the same, up to MaxManyRuns requests one after the other *)
ManyRunRequest == Request(MaxManyRuns)

(* client.onNotification(ra.runStatus, this.emitter.fire) *)
RunStatus ==
    /\ XIdle
    /\ rc.runs # <<>>
    /\ \E updates \in Notifications :
          /\ last.count + Len(updates) <= MaxStatus
          /\ rc' = emitterFire(x, rc, updates)
          /\ last' = [LastInit EXCEPT !.kind = "status", !.updates = updates, !.rc = rc,
                                      !.count = last.count + Len(updates)]
    /\ UNCHANGED <<m, x, delta, pre, seed, round, sent>>

(* a dataUpdate notification that arrives between the run request and the   *)
(* status updates: its handler runs from call to return                     *)
RunDataUpdate ==
    /\ XIdle
    /\ rc.runs # <<>>
    /\ round = 0 /\ last.count = 0
    /\ \E d \in RunDeltas : x' = XApply(x, d)
    /\ round' = round + 1
    /\ last' = [LastInit EXCEPT !.kind = "delta", !.rc = rc]
    /\ UNCHANGED <<m, delta, pre, seed, sent, rc>>

RunNext == RunRequest \/ RunStatus \/ RunDataUpdate

(* the run controller, on the external tree a seed gives *)
RunInit == Init /\ seed \in {"blank", "scenario", "populated"}

RunSpec == RunInit /\ [][RunNext]_vars

(* several run requests, then the status notifications, on a small tree *)
ManyRunNext == ManyRunRequest \/ RunStatus

ManyRunInit == Init /\ seed \in {"blank", "scenario"}

ManyRunSpec == ManyRunInit /\ [][ManyRunNext]_vars

Next == DataUpdate \/ XBegin \/ XWhile \/ XEach \/ MBegin \/ MWhile \/ MFor

Spec == Init /\ [][Next]_vars

(* a handler that has started runs on: JavaScript runs it to completion *)
FairSpec == Spec /\ WF_vars(XBegin \/ XWhile \/ XEach \/ MBegin \/ MWhile \/ MFor)

(* the same on small DeltaUpdates, for the properties of progress *)
SmallNext == SmallDataUpdate \/ XBegin \/ XWhile \/ XEach \/ MBegin \/ MWhile \/ MFor

SmallFairSpec ==
    Init /\ [][SmallNext]_vars
         /\ WF_vars(XBegin \/ XWhile \/ XEach \/ MBegin \/ MWhile \/ MFor)

---------------------------------------------------------------------------
(* Claims *)

(* the handler of the notification has returned, on each side and on both *)
XApplied == round > 0 /\ x.pc = "done"
MApplied == round > 0 /\ m.pc \in {"done", "threw"}
Applied == XApplied /\ MApplied

(* the DeltaUpdate is the first one delivered, to the seed tree *)
First == round = 1

OnlyAppend(d) == d.delete = <<>> /\ d.update = <<>>

(* C1: starting from an empty Tree Model and an empty external tree, after  *)
(* every DeltaUpdate applied so far to both, the (id, parentId) pairs of    *)
(* the external tree are those of the Tree Model.                           *)
C1_ShapeEquivalence ==
    (seed \in {"empty", "blank"} /\ Applied) => XShape(x) = MShape(m)

(* C2: the append list [A->root, B->A, C->root], alone in a DeltaUpdate and *)
(* applied to a tree without A, B and C, leaves A and C children of the     *)
(* root, A before C, and B a child of A (every entry under its target, the  *)
(* siblings in list order).                                                 *)
C2_AppendInListOrder ==
    (seed \in {"empty", "blank"} /\ First
        /\ delta = DeltaUpdate(<<>>, <<>>, <<AppA, AppB, AppC>>))
    => /\ XApplied => (XChildIds(x, "0") = <<"1", "4">> /\ XChildIds(x, "1") = <<"2">>)
       /\ MApplied => (MChildIds(m, "0") = <<"1", "4">> /\ MChildIds(m, "1") = <<"2">>)

Reorderings(s) ==
    {[i \in 1..Len(s) |-> s[f[i]]] :
        f \in {g \in [1..Len(s) -> 1..Len(s)] : \A i, j \in 1..Len(s) : g[i] = g[j] => i = j}}

(* the DeltaUpdates that differ from d by the order of update and of delete *)
Permuted(d) ==
    {DeltaUpdate(dl, up, d.append) : dl \in Reorderings(d.delete), up \in Reorderings(d.update)}

(* C3: two DeltaUpdates that differ only by the order of their update list  *)
(* and of their delete list give the same tree when applied to the same     *)
(* tree: same ids, parents, child order and field values.                   *)
C3_PermutationInvariance ==
    x.pc = "start" =>
        \A d2 \in Permuted(delta) :
            /\ XView(XApply(pre.x, d2)) = XView(XApply(pre.x, delta))
            /\ (MApply(pre.m, d2, MaxSteps).pc = "done"
                    /\ MApply(pre.m, delta, MaxSteps).pc = "done")
               => MView(MApply(pre.m, d2, MaxSteps)) = MView(MApply(pre.m, delta, MaxSteps))

(* C4: a delete entry with the id of a live non-root node, at any index of  *)
(* the delete list, index 0 included, takes the node out of its parent.     *)
C4_DeleteRemovesNode ==
    (round > 0 /\ delta.append = <<>>) =>
        \A e \in Range(delta.delete) :
            /\ XApplied => \A pr \in XShape(pre.x) :
                              Number(pr[1]) = e.targetId => pr \notin XShape(x)
            /\ MApplied => \A pr \in MShape(pre.m) :
                              Number(pr[1]) = e.targetId => pr \notin MShape(m)

(* no delete or update entry of d names the root or an id of ids *)
StaleOnly(d, ids) ==
    /\ \A e \in Range(d.delete) : e.targetId # 0 /\ \A id \in ids : Number(id) # e.targetId
    /\ \A e \in Range(d.update) : e.targetId # 0 /\ \A id \in ids : Number(id) # e.targetId

(* C5: a DeltaUpdate without appends whose delete and update entries match  *)
(* no live node raises no error, fires no event and leaves the tree as it   *)
(* was: same nodes, parents, positions and field values.                    *)
C5_StalePatchesAreDropped ==
    /\ (XApplied /\ delta.append = <<>> /\ StaleOnly(delta, ShapeIds(XShape(pre.x))))
       => XView(x) = XView(pre.x)
    /\ (round > 0 /\ m.pc # "start" /\ delta.append = <<>>
            /\ StaleOnly(delta, ShapeIds(MShape(pre.m))))
       => (MView(m) = MView(pre.m) /\ m.events = <<>> /\ m.err = "none")

(* the delete list of d names the same id twice, and nothing else is in d *)
DeletesTwice(d, t) ==
    d.update = <<>> /\ d.append = <<>> /\ d.delete = <<[targetId |-> t], [targetId |-> t]>>

(* C6: a delete list that names one live id twice removes that node with    *)
(* its subtree and nothing else.                                            *)
C6_DuplicateDeleteRemovesOnce ==
    /\ XApplied => \A pr \in XShape(pre.x) :
           DeletesTwice(delta, Number(pr[1]))
           => XShape(x) = XShape(pre.x) \ Subtree(XShape(pre.x), pr[1])
    /\ MApplied => \A pr \in MShape(pre.m) :
           DeletesTwice(delta, Number(pr[1]))
           => MShape(m) = MShape(pre.m) \ Subtree(MShape(pre.m), pr[1])

(* C7: after a DeltaUpdate that deletes Module 2, which holds Function 3    *)
(* and Module 5, and names neither of them, no id of a descendant resolves: *)
(* findItem returns null for it and the Tree Model does not reach it.       *)
C7_SubtreeDelete ==
    (seed = "populated" /\ First /\ delta.append = <<>>
        /\ [targetId |-> 2] \in Range(delta.delete))
    => /\ XApplied => (findItem(x, "3") = None /\ findItem(x, "5") = None)
       /\ MApplied => ShapeIds(MShape(m)) \cap {"3", "5"} = {}

Keep(new, old) == IF new = Undef THEN old ELSE new

(* C8: when the Sync Engine changes the fields of a node that an entry of   *)
(* its update list matches, the change is that of a matching entry: the     *)
(* fields the payload carries are overwritten, the others stay as they were.*)
C8_UpdateOverwritesPresentFields ==
    [][\A h \in 1..Len(m.nodes) :
          (/\ \/ m'.nodes[h].name # m.nodes[h].name
              \/ m'.nodes[h].location # m.nodes[h].location
              \/ m'.nodes[h].testKind # m.nodes[h].testKind
           /\ \E u \in Range(m.upd) : pred(u, Number(m.nodes[h].id)))
          => \E u \in Range(m.upd) :
                /\ pred(u, Number(m.nodes[h].id))
                /\ m'.nodes[h].name = Keep(u.payload.name, m.nodes[h].name)
                /\ m'.nodes[h].location = Keep(u.payload.location, m.nodes[h].location)
                /\ m'.nodes[h].testKind =
                      IF m.nodes[h].kind = "Function"
                      THEN Keep(u.payload.testKind, m.nodes[h].testKind)
                      ELSE m.nodes[h].testKind]_vars

(* C9: appending Function 3 to Module 2 of Session -> Crate 1 -> Module 2,  *)
(* whose targets field is absent, raises no error and makes 3 a child of 2: *)
(* in handleCreate on that module, and in the tree once applyUpdate is back.*)
C9_AppendFunctionToFreshModule ==
    (seed = "scenario" /\ First /\ delta = DeltaUpdate(<<>>, <<>>, <<AppF>>))
    => /\ handleCreate(pre.m, 2, AppF).err = "none"
       /\ <<"3", "2">> \in MShape(handleCreate(pre.m, 2, AppF))
       /\ MApplied => (m.err = "none" /\ <<"3", "2">> \in MShape(m))

(* C10: two append entries whose targets, Crate 1 and Crate 4, are live in  *)
(* unrelated subtrees are both applied, in either order of the list: each   *)
(* item is a child of its target and the append list is used up.            *)
C10_AppendsToUnrelatedSubtrees ==
    (seed = "two" /\ First /\ OnlyAppend(delta)
        /\ delta.append \in {<<AppG, AppH>>, <<AppH, AppG>>})
    => /\ XApplied => (x.app = <<>> /\ {<<"6", "1">>, <<"7", "4">>} \subseteq XShape(x))
       /\ MApplied => (m.app = <<>> /\ {<<"6", "1">>, <<"7", "4">>} \subseteq MShape(m))

(* C11: an append entry whose item kind is illegal under its target, here   *)
(* Function 3 under Crate 1, is rejected with an error and the item is      *)
(* nowhere in the Tree Model nor in the external tree afterwards.           *)
C11_IllegalKindRejected ==
    (seed \in {"scenario", "two"} /\ First /\ delta = DeltaUpdate(<<>>, <<>>, <<AppX>>))
    => /\ XApplied => "3" \notin ShapeIds(XShape(x))
       /\ MApplied => (m.err = "Error" /\ "3" \notin ShapeIds(MShape(m)))

(* the kinds an append may not put under a target of a kind *)
IllegalKind(targetKind, itemKind) ==
    CASE targetKind = "Session" -> itemKind # "Crate"
      [] targetKind = "Crate" -> itemKind # "Module"
      [] targetKind = "Module" -> itemKind \notin {"Module", "Function"}
      [] OTHER -> TRUE

(* the Sync Engine is about to visit a node whose append, the head of the   *)
(* list, carries a kind illegal under the node                              *)
Offending(s) ==
    /\ s.pc = "for"
    /\ s.idx < Len(Arr(s, s.cur))
    /\ s.app # <<>>
    /\ LET node == s.nodes[Arr(s, s.cur)[s.idx + 1]]
       IN  pred(s.app[1], Number(node.id)) /\ IllegalKind(node.kind, s.app[1].item.kind)

(* the visit of that node without its append step: update and delete only *)
BeforeAppend(s) == process([s EXCEPT !.app = <<>>], s.cur, Arr(s, s.cur)[s.idx + 1])

(* C12: an illegal-kind append stops applyUpdate with an error: the tree is *)
(* the one just before that append (what was applied stays, the item is not *)
(* inserted), and nothing of the batch is applied afterwards.               *)
C12_IllegalAppendAborts ==
    /\ [][(Offending(m) /\ m' # m)
            => /\ m'.pc = "threw" /\ m'.err = "Error"
               /\ m'.nodes = BeforeAppend(m).nodes
               /\ m'.crates = BeforeAppend(m).crates
               /\ m'.events = BeforeAppend(m).events
               /\ m'.upd = BeforeAppend(m).upd /\ m'.del = BeforeAppend(m).del]_vars
    /\ [][(m.pc = "threw" /\ round' = round) => m' = m]_vars

C12_Witness ==
    /\ m.pc = "threw" /\ m.err = "Error"
    /\ m.events # <<>>
    /\ m.app # <<>>
    /\ MView(m) # MView(pre.m)

(* C13: the append list [B->A, A->root, C->root] on a tree without A does   *)
(* not make B a child of A, and the tree it gives differs from the one the  *)
(* list [A->root, B->A, C->root] gives.                                     *)
C13_ReorderedAppendDiffers ==
    (seed \in {"empty", "blank"} /\ First
        /\ delta = DeltaUpdate(<<>>, <<>>, <<AppB, AppA, AppC>>))
    => /\ XApplied =>
            /\ <<"2", "1">> \notin XShape(x)
            /\ XView(x) # XView(XApply(pre.x, DeltaUpdate(<<>>, <<>>, <<AppA, AppB, AppC>>)))
       /\ MApplied =>
            /\ <<"2", "1">> \notin MShape(m)
            /\ MView(m) # MView(MApply(pre.m, DeltaUpdate(<<>>, <<>>, <<AppA, AppB, AppC>>),
                                       MaxSteps))

(* C14: once the DeltaUpdates delivered so far are applied, no two live     *)
(* nodes share an id, in the Tree Model and in the external tree.           *)
C14_UniqueIds ==
    /\ XApplied => \A h1, h2 \in XLiveNodes(x) :
                      x.nodes[h1].id = x.nodes[h2].id => h1 = h2
    /\ MApplied => \A h1, h2 \in MLiveNodes(m) :
                      m.nodes[h1].id = m.nodes[h2].id => h1 = h2

(* no live Module of s holds a modules or targets array that is present and *)
(* empty                                                                    *)
NoEmptyArray(s) ==
    \A h \in MLiveNodes(s) :
        s.nodes[h].kind = "Module"
        => (s.nodes[h].modules # Some(<<>>) /\ s.nodes[h].targets # Some(<<>>))

Reach(s, sel) == IF sel = None THEN {} ELSE XLive(s, sel[1])

(* C15: the items enqueued on the run of a request that is not cancelled    *)
(* are those reachable from the include roots (from the top-level items     *)
(* when include is undefined) that are neither in exclude nor below an item *)
(* of exclude.                                                              *)
C15_SelectionAlgebra ==
    (last.kind = "request" /\ ~last.cancelled)
    => Range(rc.runs[Len(rc.runs)].enq)
         = (IF last.request.include = None THEN XLive(x, x.items)
            ELSE Reach(x, last.request.include))
           \ Reach(x, last.request.exclude)

NeedsId(update) == update.kind \notin {"RawOutput", "Finish"}

LiveWithId(s, id) == {h \in XLiveNodes(s) : s.nodes[h].id = id}

(* a status update whose id is the id of no item of the external tree *)
Unresolvable(s, update) == NeedsId(update) /\ LiveWithId(s, update.id) = {}

Resolvable(s, updates) == SelectSeq(updates, LAMBDA u : ~Unresolvable(s, u))

(* C16: a status update whose id names no item of the external tree is      *)
(* dropped: the handler raises no error and makes, for the notification,    *)
(* the calls it makes for the notification without such updates.            *)
C16_UnresolvableStatusDropped ==
    (/\ last.kind = "status"
     /\ \E k \in 1..Len(last.updates) : Unresolvable(x, last.updates[k])
     /\ \A k \in 1..Len(last.updates) :
           (NeedsId(last.updates[k]) /\ ~Unresolvable(x, last.updates[k]))
           => findItem(x, last.updates[k].id) # None)
    => \A i \in 1..Len(rc.runs) :
          /\ rc.runs[i].err = "none"
          /\ rc.runs[i].calls
                = statusHandler(x, last.rc.runs[i], Resolvable(x, last.updates)).calls

(* the call a status update asks for, on the item that carries its id *)
CallFor(s, update) ==
    [op |-> Transition(update.kind),
     item |-> IF NeedsId(update) THEN CHOOSE h \in LiveWithId(s, update.id) : TRUE ELSE 0]

(* C17: when every id of a notification is the id of a live item, the       *)
(* handler makes one call per status update, in order: the transition of    *)
(* the update's kind, on the item that has the update's id.                 *)
C17_StatusForwarded ==
    (/\ last.kind = "status"
     /\ \A k \in 1..Len(last.updates) :
           NeedsId(last.updates[k]) => Cardinality(LiveWithId(x, last.updates[k].id)) = 1)
    => \A i \in 1..Len(rc.runs) :
          rc.runs[i].calls
            = last.rc.runs[i].calls
                \o [k \in 1..Len(last.updates) |-> CallFor(x, last.updates[k])]

(* C18: once end was called on a run, no later notification makes a call on *)
(* that run.                                                                *)
C18_NoCallsAfterFinish ==
    [][\A i \in 1..Len(rc.runs) :
          rc.runs[i].ended
          => (i <= Len(rc'.runs) /\ rc'.runs[i].calls = rc.runs[i].calls)]_vars

(* the ids of the branch roots of a selection, undefined for undefined *)
RootIds(s, sel) ==
    IF sel = None THEN None ELSE Some([k \in 1..Len(sel[1]) |-> s.nodes[sel[1][k]].id])

(* C19: every handled run request sends one runTests request, which carries *)
(* the ids of the request's include and exclude roots as they are           *)
(* (undefined for undefined, no descendant added) and Run for the run       *)
(* profile, Debug for the debug profile.                                    *)
C19_OneRunTestsRequest ==
    /\ Len(rc.out) = Len(rc.runs)
    /\ last.kind = "request"
       => rc.out = Append(last.rc.out,
                          [include |-> RootIds(x, last.request.include),
                           exclude |-> RootIds(x, last.request.exclude),
                           runKind |-> IF last.request.profile = "runProfile"
                                       THEN "Run" ELSE "Debug"])

C19_Witness ==
    /\ last.kind = "request"
    /\ last.request.profile = "debugProfile"
    /\ last.request.include # None /\ last.request.exclude # None
    /\ x.nodes[last.request.include[1][1]].children # <<>>
    /\ Len(rc.out) = 1
    /\ rc.out[1].runKind = "Debug"

---------------------------------------------------------------------------
(* Traversal logs: the nodes the callback was run on, in order, read off    *)
(* the loop steps themselves; handle 0 stands for the root.                 *)

(* the handles bfs hands to the Sync Engine's callback in the first n steps *)
RECURSIVE MVisits(_, _)
MVisits(s, n) ==
    IF s.pc \in {"done", "threw"} \/ n = 0 THEN <<>>
    ELSE IF s.pc = "while" THEN MVisits(MPop(s), n - 1)
    ELSE (IF s.idx < Len(Arr(s, s.cur)) THEN <<Arr(s, s.cur)[s.idx + 1]>> ELSE <<>>)
             \o MVisits(MItem(s), n - 1)

(* the handles bfs hands to the reconciler's callback from s to the return *)
RECURSIVE XVisitsFrom(_)
XVisitsFrom(s) ==
    IF s.pc = "done" THEN <<>>
    ELSE IF s.pc = "while" THEN XVisitsFrom(XPop(s))
    ELSE (IF s.idx < Len(XColl(s, s.cur)) THEN <<XColl(s, s.cur)[s.idx + 1]>> ELSE <<>>)
             \o XVisitsFrom(XItem(s))

(* the whole log of one applyUpdate of the reconciler: the root comes first *)
XVisits(s, d) == <<0>> \o XVisitsFrom(XStart(s, d))

Count(seq, v) == Cardinality({i \in 1..Len(seq) : seq[i] = v})

(* root first, then no second visit of the root, and each of the nodes in   *)
(* live exactly once                                                        *)
OnceEach(log, live) ==
    /\ log # <<>> /\ log[1] = 0
    /\ Count(log, 0) = 1
    /\ \A h \in live : Count(log, h) = 1

(* a call that deletes nothing and appends only ids no live node has *)
Growing(s, d) ==
    /\ d.delete = <<>>
    /\ \A i \in 1..Len(d.append) :
          \A h \in XLiveNodes(s) : s.nodes[h].id # d.append[i].item.id

(* C21: one applyUpdate runs the per-node step exactly once on every node   *)
(* that is live when the call starts, whatever its depth, and exactly once  *)
(* on the root, before any other node; in the Sync Engine and in the        *)
(* reconciler.  (Judged on calls, on a tree that has nodes, that delete     *)
(* nothing and append only new ids.)                                        *)
C21_VisitsEachLiveNodeOnce ==
    (First /\ XApplied /\ m.pc # "start"
        /\ MLiveNodes(pre.m) # {} /\ Growing(pre.x, delta))
    => /\ OnceEach(MVisits(MStart(pre.m, delta), MaxSteps), MLiveNodes(pre.m))
       /\ OnceEach(XVisits(pre.x, delta), XLiveNodes(pre.x))

(* the reconciler's half of C21 on its own: it holds *)
ReconcilerVisitsOnceEach ==
    (First /\ XApplied /\ Growing(pre.x, delta))
    => OnceEach(XVisits(pre.x, delta), XLiveNodes(pre.x))

(* C22: every applyUpdate that starts returns (or throws), in the reconciler *)
(* and in the Sync Engine alike, whether or not the root has children.  A   *)
(* traversal whose queue outgrows MaxQueue is left out of the judgement.    *)
C22_ApplyUpdateTerminates ==
    /\ (x.pc = "start") ~> (x.pc = "done")
    /\ (m.pc = "start") ~> (m.pc \in {"done", "threw"} \/ Len(m.queue) >= MaxQueue)

(* the reconciler's half of C22 on its own: it holds *)
ReconcilerTerminates == (x.pc = "start") ~> (x.pc = "done")

(* the numbers an id converts to *)
Targets == {Number(s) : s \in {"0", "1", "2", "3", "4", "5", "6", "7"}}

(* what findAndRemove(obj, pred) is to give for the target t *)
FindAndRemoveAsStated(obj, t) ==
    LET r == findAndRemove(obj, t)
    IN  IF \E i \in 1..Len(obj) : pred(obj[i], t)
        THEN \E i \in 1..Len(obj) :
                pred(obj[i], t) /\ r.res = Some(obj[i]) /\ r.list = RemoveAt(obj, i)
        ELSE r.res = None /\ r.list = obj

(* C23: on the update list and on the delete list of a delivered           *)
(* DeltaUpdate, the lists applyUpdate hands to it, and for each target,     *)
(* findAndRemove removes and returns one entry that satisfies pred when     *)
(* there is one, at index 0 as well, and otherwise returns undefined and    *)
(* leaves the list as it is.                                                *)
C23_FindAndRemove ==
    round > 0
    => \A t \in Targets :
          /\ FindAndRemoveAsStated(delta.update, t)
          /\ FindAndRemoveAsStated(delta.delete, t)

(* the live external items of s whose id converts to the number t *)
XTargets(s, t) == {h \in XLiveNodes(s) : NumEq(Number(s.nodes[h].id), t)}

(* C24: when the reconciler applies a DeltaUpdate that is one append entry  *)
(* whose target is a live external item other than the root and whose item  *)
(* has a new id, the created item is a child of the target afterwards.      *)
C24_AppendedItemIsChildOfTarget ==
    (First /\ XApplied /\ OnlyAppend(delta) /\ Len(delta.append) = 1
        /\ Growing(pre.x, delta) /\ XTargets(pre.x, delta.append[1].targetId) # {})
    => \A h \in XTargets(pre.x, delta.append[1].targetId) :
          <<delta.append[1].item.id, pre.x.nodes[h].id>> \in XShape(x)

(* the last two entries of a sequence are a, then b *)
EndsWith(seq, a, b) ==
    Len(seq) >= 2 /\ seq[Len(seq) - 1] = a /\ seq[Len(seq)] = b

(* the id, as the trees write it, of a live target: "0" is the root *)
TargetIdOf(s, t) ==
    IF t = 0 THEN "0" ELSE s.nodes[CHOOSE h \in XTargets(s, t) : TRUE].id

(* the DeltaUpdate is two append entries for one live target, with two new  *)
(* ids and a kind the target may hold                                       *)
TwoForOneTarget(d) ==
    /\ OnlyAppend(d) /\ Len(d.append) = 2 /\ Growing(pre.x, d)
    /\ d.append[1].targetId = d.append[2].targetId
    /\ d.append[1].item.id # d.append[2].item.id
    /\ (d.append[1].targetId = 0 \/ XTargets(pre.x, d.append[1].targetId) # {})
    /\ d.append[1].targetId = 0 => d.append[1].item.kind = "Crate"
                                      /\ d.append[2].item.kind = "Crate"
                                      /\ pre.m.crates # None
    /\ d.append[1].targetId # 0 => d.append[1].item.kind = "Module"
                                      /\ d.append[2].item.kind = "Module"

(* C25: a DeltaUpdate with append [X -> p, Y -> p] on a live node p leaves  *)
(* X and Y as the last children of p, X before Y, on both sides: both       *)
(* entries are consumed at the visit of p.                                  *)
C25_ConsecutiveAppendsConsumed ==
    (First /\ TwoForOneTarget(delta))
    => LET p == TargetIdOf(pre.x, delta.append[1].targetId)
           X == delta.append[1].item.id
           Y == delta.append[2].item.id
       IN  /\ XApplied => (x.app = <<>> /\ EndsWith(XChildIds(x, p), X, Y))
           /\ MApplied => (m.app = <<>> /\ EndsWith(MChildIds(m, p), X, Y))

(* the append list the reconciler's next step starts from: the delivered    *)
(* one when applyUpdate is about to begin                                   *)
XAppBefore == IF x.pc = "start" THEN delta.append ELSE x.app

(* C26: a step of the reconciler's traversal leaves the remaining append    *)
(* list as it is or takes away its first entry, as the Sync Engine does; it *)
(* never takes the entry at the tail.                                       *)
C26_ReconcilerConsumesHead ==
    [][(round' = round /\ x' # x)
          => (x'.app = XAppBefore \/ x'.app = Tail(XAppBefore))]_vars

(* the node the next step of a traversal hands to the callback, if any *)
XVisiting == x.pc = "each" /\ x.idx < Len(XColl(x, x.cur))
MVisiting == m.pc = "for" /\ m.idx < Len(Arr(m, m.cur))

(* C27: within one applyUpdate nothing below a deleted node is visited, so  *)
(* no entry of the batch is applied to it and no event is fired for it:     *)
(* every node handed to the callback is in the tree at that moment.         *)
C27_NoVisitBelowDeletedNode ==
    /\ XVisiting => XColl(x, x.cur)[x.idx + 1] \in XLiveNodes(x)
    /\ MVisiting => Arr(m, m.cur)[m.idx + 1] \in MLiveNodes(m)

(* the Sync Engine's half of C27 on its own: it holds, only crates being    *)
(* visited                                                                  *)
SyncEngineVisitsLiveNodes ==
    MVisiting => Arr(m, m.cur)[m.idx + 1] \in MLiveNodes(m)

(* C28: when the reconciler applies a DeltaUpdate that is one update entry  *)
(* whose target is a live external item, the item's label is the payload's  *)
(* name afterwards.                                                         *)
C28_UpdateSetsLabel ==
    (First /\ XApplied /\ delta.delete = <<>> /\ delta.append = <<>>
        /\ Len(delta.update) = 1 /\ XTargets(pre.x, delta.update[1].targetId) # {})
    => \A h \in XTargets(pre.x, delta.update[1].targetId) :
          h \in XLiveNodes(x) /\ x.nodes[h].label = delta.update[1].payload.name

(* the ids of the trees of the model *)
Ids == {"1", "2", "3", "4", "5", "6", "7"}

(* C29: once applyUpdate has returned, findItem(id) gives, for every id a   *)
(* live external item has, top-level items included, that item and the      *)
(* collection that holds it, and null for every other id.                   *)
C29_FindItemFindsEveryLiveItem ==
    XApplied
    => \A id \in Ids :
          LET live == {h \in XLiveNodes(x) : x.nodes[h].id = id}
              found == findItem(x, id)
          IN  IF live = {} THEN found = None
              ELSE /\ found # None
                   /\ found[1][1] \in live
                   /\ found[1][1] \in Range(XColl(x, found[1][2]))

(* the patches one step of the Sync Engine applied: the update and delete   *)
(* entries it took from the lists, the children it created                  *)
AppliedByStep ==
    (Len(m.upd) - Len(m'.upd)) + (Len(m.del) - Len(m'.del))
        + (Len(m'.nodes) - Len(m.nodes))

(* C30: within one applyUpdate of the Sync Engine, the visit of a node      *)
(* fires one event, carrying that node, for each update it applies, for     *)
(* each delete it applies and for each child it creates, none when it       *)
(* applies nothing; no other step fires an event.                           *)
C30_OneEventPerAppliedPatch ==
    [][round' = round
          => IF MVisiting
             THEN m'.events
                    = m.events \o [k \in 1..AppliedByStep |->
                                      m.nodes[Arr(m, m.cur)[m.idx + 1]].id]
             ELSE m'.events = m.events]_vars

(* one call applied an update, a delete and an append, one event each *)
C30_Witness ==
    /\ First /\ m.pc = "done"
    /\ Len(delta.update) = 1 /\ Len(delta.delete) = 1 /\ Len(delta.append) = 1
    /\ m.upd = <<>> /\ m.del = <<>> /\ m.app = <<>>
    /\ Len(m.nodes) = Len(pre.m.nodes) + 1
    /\ Len(m.events) = 3

(* a node was visited and nothing was applied to it: no event *)
C30_QuietVisit ==
    /\ First /\ m.pc = "for" /\ m.idx > 0
    /\ Size(delta) > 0
    /\ m.upd = delta.update /\ m.del = delta.delete /\ m.app = delta.append
    /\ m.events = <<>>

(* a field that may be absent, read as an array *)
OrEmpty(field) == IF field = None THEN <<>> ELSE field[1]

(* C31: the children of every live Module of the Tree Model are its modules *)
(* followed by its targets, an absent field counting as empty; a Module     *)
(* with both fields absent has no children.                                 *)
C31_ModuleChildrenModulesFirst ==
    round > 0
    => \A h \in MLiveNodes(m) :
          m.nodes[h].kind = "Module"
          => ModuleGetChildren(m.nodes[h])
                = OrEmpty(m.nodes[h].modules) \o OrEmpty(m.nodes[h].targets)

(* the DeltaUpdate is nothing but delete entries for the reserved root id 0 *)
DeletesRootOnly(d) ==
    /\ d.update = <<>> /\ d.append = <<>> /\ d.delete # <<>>
    /\ \A e \in Range(d.delete) : e.targetId = 0

(* C32: a DeltaUpdate whose delete list names the reserved root id 0 leaves *)
(* the root where it is (the Session keeps its crates array, the controller *)
(* its root collection) and removes no other node either: both trees have   *)
(* the nodes they had.                                                      *)
C32_RootIsNeverDeleted ==
    (round > 0 /\ DeletesRootOnly(delta))
    => /\ XApplied => XShape(x) = XShape(pre.x)
       /\ MApplied => ((pre.m.crates # None => m.crates # None)
                          /\ MShape(m) = MShape(pre.m))

(* a is b with some entries taken out *)
RECURSIVE IsSubSeq(_, _)
IsSubSeq(a, b) ==
    IF a = <<>> THEN TRUE
    ELSE IF b = <<>> THEN FALSE
    ELSE IF Head(a) = Head(b) THEN IsSubSeq(Tail(a), Tail(b))
    ELSE IsSubSeq(a, Tail(b))

(* the lists a side's next step starts from: the delivered ones when its    *)
(* applyUpdate is about to begin                                            *)
ListsBefore(s) ==
    IF s.pc = "start"
    THEN [upd |-> delta.update, del |-> delta.delete, app |-> delta.append]
    ELSE [upd |-> s.upd, del |-> s.del, app |-> s.app]

(* the entries a step took from a list *)
Taken(before, after) == Len(before) - Len(after)

(* the number of entries of all the collections of the external tree *)
RECURSIVE XChildrenUpTo(_, _)
XChildrenUpTo(s, n) ==
    IF n = 0 THEN 0 ELSE Len(s.nodes[n].children) + XChildrenUpTo(s, n - 1)

XEntries(s) == Len(s.items) + XChildrenUpTo(s, Len(s.nodes))

(* a step of the reconciler only takes entries out of the lists, creates at *)
(* most one item per append entry taken, removes at most one per delete     *)
(* entry taken, and changes nothing else                                    *)
XStepWithinEntries ==
    LET b == ListsBefore(x)
        cd == Taken(b.del, x'.del)
        ca == Taken(b.app, x'.app)
    IN  /\ IsSubSeq(x'.upd, b.upd) /\ IsSubSeq(x'.del, b.del) /\ IsSubSeq(x'.app, b.app)
        /\ Len(x'.nodes) >= Len(x.nodes)
        /\ Len(x'.nodes) - Len(x.nodes) <= ca
        /\ \A h \in 1..Len(x.nodes) :
              x'.nodes[h].id = x.nodes[h].id /\ x'.nodes[h].label = x.nodes[h].label
        /\ XEntries(x') <= XEntries(x) + ca
        /\ XEntries(x') >= XEntries(x) - cd
        /\ (cd = 0 /\ ca = 0) => (x'.items = x.items /\ x'.nodes = x.nodes)

(* the same for the Sync Engine: one event per mutation (C30), a change in  *)
(* the visited node only                                                    *)
MStepWithinEntries ==
    LET b == ListsBefore(m)
        cu == Taken(b.upd, m'.upd)
        cd == Taken(b.del, m'.del)
        ca == Taken(b.app, m'.app)
    IN  /\ IsSubSeq(m'.upd, b.upd) /\ IsSubSeq(m'.del, b.del) /\ IsSubSeq(m'.app, b.app)
        /\ Len(m'.nodes) >= Len(m.nodes)
        /\ Len(m'.nodes) - Len(m.nodes) <= ca
        /\ Len(m'.events) - Len(m.events) <= cu + cd + ca
        /\ \A h \in 1..Len(m.nodes) :
              m'.nodes[h] # m.nodes[h]
              => (MVisiting /\ h = Arr(m, m.cur)[m.idx + 1] /\ cu + ca > 0)
        /\ m.crates # None => Len(m.crates[1]) - Len(m'.crates[1]) \in {0, cd} \cap 0..1
        /\ (cu + cd + ca = 0) => (m'.crates = m.crates /\ m'.nodes = m.nodes)

(* C33: applyUpdate never adds an entry to the update, delete or append     *)
(* list it is given; each entry is taken at most once and applied to at     *)
(* most one node; the mutations of one apply are at most as many as the     *)
(* entries of the DeltaUpdate.                                              *)
C33_MutationsWithinEntries ==
    [][/\ round' = round => (XStepWithinEntries /\ MStepWithinEntries)
       /\ Len(m'.events) <= Size(delta')
       /\ Len(m'.nodes) - Len(pre'.m.nodes) <= Len(delta'.append)
       /\ Len(x'.nodes) - Len(pre'.x.nodes) <= Len(delta'.append)]_vars

(* one apply took a delete and an append entry on both sides and changed    *)
(* both trees                                                               *)
C33_Witness ==
    /\ First /\ Applied
    /\ delta.delete # <<>> /\ delta.append # <<>>
    /\ x.del = <<>> /\ x.app = <<>> /\ m.del = <<>> /\ m.app = <<>>
    /\ XShape(x) # XShape(pre.x)
    /\ Len(x.nodes) > Len(pre.x.nodes)
    /\ Len(m.nodes) > Len(pre.m.nodes)
    /\ m.events # <<>>

(* the numbers of the ids of the nodes the Sync Engine visits in the apply  *)
(* of delta to the tree it had                                              *)
MVisitedTargets ==
    LET start == MStart(pre.m, delta)
        log == MVisits(start, MaxSteps)
        fin == MRun(start, MaxSteps)
    IN  {Number(fin.nodes[log[i]].id) : i \in 1..Len(log)}

(* the head of the delivered append list targets no node the apply visits *)
HeadNeverVisited ==
    /\ delta.append # <<>>
    /\ \A t \in MVisitedTargets : ~pred(delta.append[1], t)

(* C34: in the Sync Engine, when the first append entry targets an id that  *)
(* no node visited during the apply has, no append entry of the DeltaUpdate *)
(* is applied, the entries behind it with live targets included: the list   *)
(* stays whole and no node is created.                                      *)
C34_HeadBlocksAppends ==
    (round > 0 /\ m.pc # "start" /\ HeadNeverVisited)
    => (m.app = delta.append /\ Len(m.nodes) = Len(pre.m.nodes))

(* Crate 1 was visited with the entry for it behind an entry for a node     *)
(* that is not visited                                                      *)
C34_Witness ==
    /\ First /\ m.pc = "for" /\ m.idx > 0
    /\ HeadNeverVisited
    /\ Len(delta.append) >= 2
    /\ \E h \in MLiveNodes(pre.m) :
          /\ pre.m.nodes[h].kind = "Crate"
          /\ pred(delta.append[2], Number(pre.m.nodes[h].id))
          /\ h \in Range(MVisits(MStart(pre.m, delta), MaxSteps))
    /\ m.app = delta.append

(* the calls the handler of a run makes for a notification *)
CallsFor(s, updates) == statusHandler(s, createTestRun, updates).calls

StartQueue(s, request) ==
    IF request.include # None THEN request.include[1] ELSE s.items

(* C36: when the token is cancelled as the enqueue traversal of a run       *)
(* request looks at it, the traversal stops there: the item in hand is      *)
(* enqueued unless it is excluded, and no item after it is.                 *)
C36_CancelStopsEnqueue ==
    (last.kind = "request" /\ last.cancelled)
    => LET queue == StartQueue(x, last.request)
           run == rc.runs[Len(rc.runs)]
       IN  run.enq
             = IF queue = <<>> THEN <<>>
               ELSE IF last.request.exclude # None
                       /\ Last(queue) \in Range(last.request.exclude[1])
               THEN <<>>
               ELSE <<Last(queue)>>

(* a cancelled request enqueued an item that has children, and none of them *)
C36_Witness ==
    /\ last.kind = "request" /\ last.cancelled
    /\ Len(rc.runs[Len(rc.runs)].enq) = 1
    /\ x.nodes[rc.runs[Len(rc.runs)].enq[1]].children # <<>>

=============================================================================
